---- MODULE Spec2Model ----
(***************************************************************************)
(* State-machine model of the Polyglot Media Analyzer backend.             *)
(*                                                                         *)
(*  - the batch pipeline: upload_media_file, process_media_file,           *)
(*    index_media_content, get_processing_status   (app/api/media.py)      *)
(*  - the live streaming service: StreamingService and WebSocketHandler    *)
(*    (app/services/streaming_service.py)                                  *)
(*                                                                         *)
(* Every await on a collaborator (model inference, the database, the       *)
(* search index) either returns or raises; the outcome is an input of the  *)
(* action that models the call.                                            *)
(***************************************************************************)
EXTENDS Integers, Sequences, FiniteSets, TLC

(***************************************************************************)
(* Bounds of the model.                                                    *)
(***************************************************************************)
NumJobs == 2
\* audio chunks pushed and video frames pushed, over all sessions
MaxPushes == 15
MaxFrames == 2
\* inference cycles that fail, over the sessions now registered
MaxFailures == 1
\* audio chunks pushed to the sessions now registered, where calls interleave
MaxChunks == 7
\* transcription segments handed to the highlight generator
MaxSegs == 3
\* candidates handed to reel assembly
MaxClips == 3

Jobs == 1..NumJobs

\* what a list-valued stage (sentiment segments, object detections) returns:
\* no row or some rows; the pipeline only iterates over them
RowCounts == {0, 1}

(***************************************************************************)
(* Batch pipeline state.                                                   *)
(*   status, file_type   the committed media_files row of a job            *)
(*                       ("none": no row, the file was never uploaded)     *)
(*   tables              committed rows of the Transcription, Summary,     *)
(*                       SentimentAnalysis and ObjectDetection tables      *)
(*   processing_results  committed rows of the ProcessingResult table, as  *)
(*                       the set of their task_type values                 *)
(*   db_pending          rows db.add()-ed to the background task's session *)
(*                       and not yet committed                             *)
(*   es_index            ids of the documents in the search index          *)
(*   pc                  position of the background task of a job          *)
(*   calls               the collaborator calls the task has made, in      *)
(*                       order: stage, whether it returned, rows returned  *)
(***************************************************************************)
VARIABLES status, file_type, tables, processing_results, db_pending,
          es_index, pc, calls

pipeVars == <<status, file_type, tables, processing_results, db_pending,
              es_index, pc, calls>>

(***************************************************************************)
(* Streaming state.                                                        *)
(*   active_streams  StreamingService.active_streams: session id ->        *)
(*                   buffer and results (the config is stored and never    *)
(*                   read)                                                 *)
(*   conn            one handle_websocket invocation per client: whether   *)
(*                   its message loop is running, and its local session_id *)
(*   pushed          chunks pushed to a session since it was started; a    *)
(*                   chunk is named by its arrival number.  This count and *)
(*                   the two logs below are kept for registered sessions   *)
(*                   only (0 and empty otherwise)                          *)
(*   cycles          the inference cycles run for a session since it was   *)
(*                   started: the push that triggered it, the audio handed *)
(*                   to transcription, whether both inferences returned    *)
(*   frame_log       for each frame pushed to a session since it was       *)
(*                   started, whether object detection was invoked         *)
(*   reply           what the service call made in the last step returned  *)
(*                   or raised (NoReply when the step called no operation  *)
(*                   of the service or dropped what it returned)           *)
(*   replaced        what the start_streaming_session of the last step     *)
(*                   overwrote in the registry: "none" (the step started   *)
(*                   no session, or the id was not registered), "empty"    *)
(*                   (a session with nothing buffered and no result) or    *)
(*                   "data"                                                *)
(*   suspended       per client, the call of process_audio_chunk that is   *)
(*                   waiting at an inference call: its session id, the     *)
(*                   combined audio it handed to transcription, the push   *)
(*                   that triggered it, and whether the session was ended  *)
(*                   since (NoCycle when the client has no call waiting)   *)
(***************************************************************************)
VARIABLES active_streams, conn, pushed, cycles, frame_log, reply, replaced,
          suspended

streamVars == <<active_streams, conn, pushed, cycles, frame_log, reply, replaced,
                suspended>>

(***************************************************************************)
(* Highlight generator state (one call of the generator at a time).        *)
(*   hpc            position of the call: in detect_highlight_moments, or  *)
(*                  how the call ended                                     *)
(*   transcript     the transcription_segments argument                    *)
(*   signals        what the four signal extractors returned               *)
(*   failed         the extractors in which an exception was raised        *)
(*   segments       what _create_time_segments returned                    *)
(*   highlights     what detect_highlight_moments returned                 *)
(*   reel           the arguments and the outcome of                       *)
(*                  create_smart_highlight_reel                            *)
(***************************************************************************)
VARIABLES hpc, transcript, signals, failed, segments, highlights, reel

highlightVars == <<hpc, transcript, signals, failed, segments, highlights, reel>>

vars == <<pipeVars, streamVars, highlightVars>>

NoRows == [transcription |-> 0, summary |-> 0, sentiment |-> 0, objects |-> 0]

\* what process_media_file hands to each stage: the uploaded file, the audio
\* track (the file itself for an audio upload), the "text" of the
\* transcription result, the document built for the index
StageInput(stage) ==
    CASE stage = "extract_audio" -> "file_path"
      [] stage = "transcription" -> "audio_path"
      [] stage = "summarization" -> "transcript_text"
      [] stage = "sentiment" -> "transcript_text"
      [] stage = "object_detection" -> "file_path"
      [] stage = "index" -> "document"

Call(stage, ok, rows) ==
    [stage |-> stage, ok |-> ok, rows |-> rows, input |-> StageInput(stage)]

Log(j, stage, ok, rows) == [calls EXCEPT ![j] = Append(@, Call(stage, ok, rows))]

\* the exception leaves the try block: control is in the except clause
Raise(j) == pc' = [pc EXCEPT ![j] = "except"]

Goto(j, label) == pc' = [pc EXCEPT ![j] = label]

(***************************************************************************)
(* upload_media_file: the row is committed with status "uploaded" and the  *)
(* background task is scheduled.  A request that fails before the commit   *)
(* stores nothing and schedules nothing.                                   *)
(***************************************************************************)
Upload(j, ft) ==
    /\ status[j] = "none"
    /\ status' = [status EXCEPT ![j] = "uploaded"]
    /\ file_type' = [file_type EXCEPT ![j] = ft]
    /\ Goto(j, "start")
    /\ UNCHANGED <<tables, processing_results, db_pending, es_index, calls,
                   streamVars, highlightVars>>

(***************************************************************************)
(* process_media_file, first block: select the row, set "processing",      *)
(* commit.  The row exists: the task is scheduled after upload's commit    *)
(* and nothing deletes rows.  If the select or the commit raises, nothing  *)
(* is stored.                                                              *)
(***************************************************************************)
BeginSkipsExtraction(j, ok) ==
    /\ pc[j] = "start"
    /\ IF ok
         THEN /\ status' = [status EXCEPT ![j] = "processing"]
              /\ Goto(j, "transcribe")
         ELSE /\ Raise(j)
              /\ UNCHANGED status
    /\ UNCHANGED <<file_type, tables, processing_results, db_pending, es_index, calls,
                   streamVars, highlightVars>>

Begin(j, ok) ==
    /\ pc[j] = "start"
    /\ IF ok
         THEN /\ status' = [status EXCEPT ![j] = "processing"]
              /\ Goto(j, IF file_type[j] = "video" THEN "extract" ELSE "transcribe")
         ELSE /\ Raise(j)
              /\ UNCHANGED status
    /\ UNCHANGED <<file_type, tables, processing_results, db_pending, es_index, calls,
                   streamVars, highlightVars>>

ExtractAudio(j, ok) ==
    /\ pc[j] = "extract"
    /\ calls' = Log(j, "extract_audio", ok, 0)
    /\ IF ok THEN Goto(j, "transcribe") ELSE Raise(j)
    /\ UNCHANGED <<status, file_type, tables, processing_results, db_pending, es_index,
                   streamVars, highlightVars>>

Transcribe(j, ok) ==
    /\ pc[j] = "transcribe"
    /\ calls' = Log(j, "transcription", ok, IF ok THEN 1 ELSE 0)
    /\ IF ok
         THEN /\ db_pending' = [db_pending EXCEPT ![j].transcription = 1]
              /\ Goto(j, "summarize")
         ELSE /\ Raise(j)
              /\ UNCHANGED db_pending
    /\ UNCHANGED <<status, file_type, tables, processing_results, es_index,
                   streamVars, highlightVars>>

SummarizeSwallowed(j, ok) ==
    /\ pc[j] = "summarize"
    /\ calls' = Log(j, "summarization", ok, IF ok THEN 1 ELSE 0)
    /\ db_pending' = [db_pending EXCEPT ![j].summary = IF ok THEN 1 ELSE 0]
    /\ Goto(j, "sentiment")
    /\ UNCHANGED <<status, file_type, tables, processing_results, es_index,
                   streamVars, highlightVars>>

Summarize(j, ok) ==
    /\ pc[j] = "summarize"
    /\ calls' = Log(j, "summarization", ok, IF ok THEN 1 ELSE 0)
    /\ IF ok
         THEN /\ db_pending' = [db_pending EXCEPT ![j].summary = 1]
              /\ Goto(j, "sentiment")
         ELSE /\ Raise(j)
              /\ UNCHANGED db_pending
    /\ UNCHANGED <<status, file_type, tables, processing_results, es_index,
                   streamVars, highlightVars>>

\* one SentimentAnalysis row is added per returned segment; a transcript of
\* blanks has no segment
Sentiment(j, ok, n) ==
    /\ pc[j] = "sentiment"
    /\ calls' = Log(j, "sentiment", ok, IF ok THEN n ELSE 0)
    /\ IF ok
         THEN /\ db_pending' = [db_pending EXCEPT ![j].sentiment = n]
              /\ Goto(j, IF file_type[j] = "video" THEN "detect" ELSE "complete")
         ELSE /\ Raise(j)
              /\ UNCHANGED db_pending
    /\ UNCHANGED <<status, file_type, tables, processing_results, es_index,
                   streamVars, highlightVars>>

\* detect_objects_in_video raises when the video cannot be read; a failure
\* inside one frame is swallowed by _detect_objects_in_frame (no objects)
DetectObjects(j, ok, m) ==
    /\ pc[j] = "detect"
    /\ calls' = Log(j, "object_detection", ok, IF ok THEN m ELSE 0)
    /\ IF ok
         THEN /\ db_pending' = [db_pending EXCEPT ![j].objects = m]
              /\ Goto(j, "complete")
         ELSE /\ Raise(j)
              /\ UNCHANGED db_pending
    /\ UNCHANGED <<status, file_type, tables, processing_results, es_index,
                   streamVars, highlightVars>>

(***************************************************************************)
(* status = "completed" and commit: the one commit that flushes the rows   *)
(* added by the stages.  A commit that raises rolls the transaction back.  *)
(***************************************************************************)
CompleteNotStored(j, ok) ==
    /\ pc[j] = "complete"
    /\ Goto(j, "build")
    /\ UNCHANGED <<status, file_type, tables, processing_results, db_pending, es_index, calls,
                   streamVars, highlightVars>>

Complete(j, ok) ==
    /\ pc[j] = "complete"
    /\ IF ok
         THEN /\ status' = [status EXCEPT ![j] = "completed"]
              /\ tables' = [tables EXCEPT ![j] = db_pending[j]]
              /\ Goto(j, "build")
         ELSE /\ Raise(j)
              /\ UNCHANGED <<status, tables>>
    /\ db_pending' = [db_pending EXCEPT ![j] = NoRows]
    /\ UNCHANGED <<file_type, processing_results, es_index, calls,
                   streamVars, highlightVars>>

\* the argument of index_media_content is evaluated inside process_media_file's
\* try block, outside index_media_content's own
BuildDocument(j, ok) ==
    /\ pc[j] = "build"
    /\ IF ok THEN Goto(j, "publish") ELSE Raise(j)
    /\ UNCHANGED <<status, file_type, tables, processing_results, db_pending, es_index, calls,
                   streamVars, highlightVars>>

PublishUnguarded(j, ok) ==
    /\ pc[j] = "publish"
    /\ calls' = Log(j, "index", ok, 0)
    /\ es_index' = IF ok THEN es_index \cup {j} ELSE es_index
    /\ IF ok THEN Goto(j, "done") ELSE Raise(j)
    /\ UNCHANGED <<status, file_type, tables, processing_results, db_pending,
                   streamVars, highlightVars>>

\* index_media_content: an exception of the index client is logged, not raised
Publish(j, ok) ==
    /\ pc[j] = "publish"
    /\ calls' = Log(j, "index", ok, 0)
    /\ es_index' = IF ok THEN es_index \cup {j} ELSE es_index
    /\ Goto(j, "done")
    /\ UNCHANGED <<status, file_type, tables, processing_results, db_pending,
                   streamVars, highlightVars>>

(***************************************************************************)
(* The except clause: a new session, select, status = "error", commit.     *)
(* If the select or the commit raises, the exception leaves the task.      *)
(***************************************************************************)
Except(j, ok) ==
    /\ pc[j] = "except"
    /\ IF ok
         THEN /\ status' = [status EXCEPT ![j] = "error"]
              /\ Goto(j, "done")
         ELSE /\ Goto(j, "aborted")
              /\ UNCHANGED status
    /\ UNCHANGED <<file_type, tables, processing_results, db_pending, es_index, calls,
                   streamVars, highlightVars>>

(***************************************************************************)
(* get_processing_status: the row's status and the ProcessingResult rows   *)
(* of the file keyed by task_type; results is the set of keys of that map, *)
(* the empty set standing for the None returned when there is no row.  An  *)
(* unknown file raises HTTPException(404), which the handler's own except  *)
(* clause turns into a 500.  The request reads the store and changes       *)
(* nothing: ProcessingStatus(j) is what it returns in the current state.   *)
(***************************************************************************)
ProcessingStatus(j) ==
    IF status[j] = "none"
      THEN [file_id |-> j, status |-> "http_500", results |-> {}]
      ELSE [file_id |-> j, status |-> status[j], results |-> processing_results[j]]

PipeInit ==
    /\ status = [j \in Jobs |-> "none"]
    /\ file_type = [j \in Jobs |-> "none"]
    /\ tables = [j \in Jobs |-> NoRows]
    /\ processing_results = [j \in Jobs |-> {}]
    /\ db_pending = [j \in Jobs |-> NoRows]
    /\ es_index = {}
    /\ pc = [j \in Jobs |-> "idle"]
    /\ calls = [j \in Jobs |-> <<>>]

PipeNext ==
    \E j \in Jobs :
        \/ \E ft \in {"audio", "video"} : Upload(j, ft)
        \/ \E ok \in BOOLEAN : Begin(j, ok)
        \/ \E ok \in BOOLEAN : ExtractAudio(j, ok)
        \/ \E ok \in BOOLEAN : Transcribe(j, ok)
        \/ \E ok \in BOOLEAN : Summarize(j, ok)
        \/ \E ok \in BOOLEAN, n \in RowCounts : Sentiment(j, ok, n)
        \/ \E ok \in BOOLEAN, m \in RowCounts : DetectObjects(j, ok, m)
        \/ \E ok \in BOOLEAN : Complete(j, ok)
        \/ \E ok \in BOOLEAN : BuildDocument(j, ok)
        \/ \E ok \in BOOLEAN : Publish(j, ok)
        \/ \E ok \in BOOLEAN : Except(j, ok)

(***************************************************************************)
(* Streaming service.                                                      *)
(*                                                                         *)
(* The coroutines awaited by the service (transcribe_audio,                *)
(* analyze_sentiment, _detect_objects_in_frame) contain no await of their  *)
(* own, so a call of the service runs to its end without yielding: each    *)
(* operation is one step, and handlers of different clients interleave     *)
(* between messages.                                                       *)
(***************************************************************************)
Sessions == {"s1", "s2"}
Conns == {"a", "b"}
\* the clients of the specification in which one client drives the service
SeqClients == {"a"}
Labels == {"positive", "negative", "neutral"}
Outcomes == {"ok", "asr_error", "sentiment_error"}

BufferThreshold == 5
SecondsPerResult == 5
FrameSampleRate == 10

Registered(s) == s \in DOMAIN active_streams

NewSession == [buffer |-> <<>>, results |-> <<>>]

TotalPushed == pushed["s1"] + pushed["s2"]
TotalFrames == Len(frame_log["s1"]) + Len(frame_log["s2"])
FailedCycles(s) == {k \in DOMAIN cycles[s] : ~cycles[s][k].ok}
TotalFailures == Cardinality(FailedCycles("s1")) + Cardinality(FailedCycles("s2"))

BufferFullOffByOne(buffer) == Len(buffer) > BufferThreshold

\* len(buffer) >= 5
BufferFull(buffer) == Len(buffer) >= BufferThreshold

CycleResultCountsItself(s, audio, label) ==
    [timestamp     |-> (Len(active_streams[s].results) + 1) * SecondsPerResult,
     transcription |-> audio,
     sentiment     |-> label,
     session_id    |-> s]

\* the result of one inference cycle; the transcription of the combined audio
\* is named by the chunks it was made from
CycleResult(s, audio, label) ==
    [timestamp     |-> Len(active_streams[s].results) * SecondsPerResult,
     transcription |-> audio,
     sentiment     |-> label,
     session_id    |-> s]

\* frame_count % 10 == 0, frame_count being len(results)
SampleFrame(s) == Len(active_streams[s].results) % FrameSampleRate = 0

SkippedResponse == [status |-> "skipped_frame"]

BufferingResponse == [status |-> "buffering"]

NoReply == [none |-> TRUE]

\* start_streaming_session returns the session id
Started(s) == [session_started |-> s]

\* raise ValueError(f"Session {session_id} not found")
NotFound(s) == [error |-> "ValueError", not_found |-> s]

\* an exception of a collaborator leaves the operation
Raised(what) == [error |-> what]

DetectionResponse(s, objects) ==
    [frame_number |-> Len(active_streams[s].results),
     objects      |-> objects,
     session_id   |-> s]

TrendWindow == 3

\* sentiments = [r["sentiment"]["overall_sentiment"] for r in results]
Sentiments(results) == [i \in DOMAIN results |-> results[i].sentiment]

AllAre(recent, label) == \A i \in DOMAIN recent : recent[i] = label

SentimentTrendLastOnly(sentiments) ==
    IF sentiments = <<>> THEN "stable"
    ELSE IF sentiments[Len(sentiments)] = "positive" THEN "improving"
    ELSE IF sentiments[Len(sentiments)] = "negative" THEN "declining"
    ELSE "stable"

\* the trend of get_live_insights: "stable" unless there are at least 3
\* sentiments and the last 3 are all positive or all negative
SentimentTrend(sentiments) ==
    IF Len(sentiments) >= TrendWindow
      THEN LET recent == SubSeq(sentiments, Len(sentiments) - TrendWindow + 1,
                                Len(sentiments))
           IN IF AllAre(recent, "positive") THEN "improving"
              ELSE IF AllAre(recent, "negative") THEN "declining"
              ELSE "stable"
      ELSE "stable"

NoData == [status |-> "no_data"]

\* the aggregate of get_live_insights over a result history.  The text of a
\* transcription is opaque here (a transcription is named by the chunks it was
\* made from), so total_words, a count over the joined texts, is left out.
Aggregate(s, results) ==
    IF results = <<>>
      THEN NoData
      ELSE [session_duration     |-> Len(results) * SecondsPerResult,
            sentiment_trend      |-> SentimentTrend(Sentiments(results)),
            current_sentiment    |-> results[Len(results)].sentiment,
            recent_transcription |-> results[Len(results)].transcription,
            session_id           |-> s]

\* get_live_insights(session_id)
LiveInsights(s) ==
    IF Registered(s) THEN Aggregate(s, active_streams[s].results) ELSE NotFound(s)

NoCycle == [none |-> TRUE]

Suspended(c) == suspended[c] # NoCycle

\* the handler of client c is at the top of its message loop: the connection
\* is open and no call of the service is waiting
Ready(c) == conn[c].state = "open" /\ ~Suspended(c)

\* handle_websocket's "except Exception": an error message is sent and the
\* handler returns, which ends the connection
HandlerFails(c) == conn' = [conn EXCEPT ![c] = [state |-> "closed", session_id |-> "none"]]

\* the logs describe the sessions now registered
ForgetLogs(ss) ==
    /\ pushed' = [s \in Sessions |-> IF s \in ss THEN 0 ELSE pushed[s]]
    /\ cycles' = [s \in Sessions |-> IF s \in ss THEN <<>> ELSE cycles[s]]
    /\ frame_log' = [s \in Sessions |-> IF s \in ss THEN <<>> ELSE frame_log[s]]

\* the calls waiting on session s find out, when they resume, that it was ended
EndedFor(s) ==
    [c \in Conns |->
        IF Suspended(c) /\ suspended[c].session_id = s
          THEN [suspended[c] EXCEPT !.ended = TRUE]
          ELSE suspended[c]]

RemoveSession(s) == [x \in DOMAIN active_streams \ {s} |-> active_streams[x]]

\* what an assignment to active_streams[s] overwrites
Overwritten(s) ==
    IF ~Registered(s) THEN "none"
    ELSE IF active_streams[s] = NewSession THEN "empty"
    ELSE "data"

Connect(c) ==
    /\ conn[c].state = "closed"
    /\ conn' = [conn EXCEPT ![c] = [state |-> "open", session_id |-> "none"]]
    /\ reply' = NoReply
    /\ UNCHANGED <<active_streams, pushed, cycles, frame_log, pipeVars, highlightVars>>
    /\ replaced' = "none"
    /\ UNCHANGED suspended

StartSessionKeepsActive(c, s) ==
    /\ Ready(c)
    /\ conn' = [conn EXCEPT ![c].session_id = s]
    /\ active_streams' = active_streams @@ (s :> NewSession)
    /\ IF Registered(s) THEN ForgetLogs({}) ELSE ForgetLogs({s})
    /\ reply' = Started(s)
    /\ replaced' = Overwritten(s)
    /\ UNCHANGED suspended
    /\ UNCHANGED <<pipeVars, highlightVars>>

\* message start_session -> start_streaming_session
StartSession(c, s) ==
    /\ Ready(c)
    /\ conn' = [conn EXCEPT ![c].session_id = s]
    /\ active_streams' = (s :> NewSession) @@ active_streams
    /\ ForgetLogs({s})
    /\ reply' = Started(s)
    /\ replaced' = Overwritten(s)
    /\ UNCHANGED suspended
    /\ UNCHANGED <<pipeVars, highlightVars>>

\* message audio_chunk -> process_audio_chunk; when the buffer is full the
\* cycle's inference returns (with a sentiment label) or raises
PushAudio(c, s) ==
    /\ Ready(c)
    /\ IF ~Registered(s)
         THEN /\ HandlerFails(c)
              /\ reply' = NotFound(s)
              /\ UNCHANGED <<active_streams, pushed, cycles, frame_log>>
         ELSE /\ TotalPushed < MaxPushes
              /\ LET chunk  == pushed[s] + 1
                     buffer == Append(active_streams[s].buffer, chunk)
                 IN /\ pushed' = [pushed EXCEPT ![s] = chunk]
                    /\ IF BufferFull(buffer)
                         THEN \E outcome \in Outcomes :
                              /\ outcome # "ok" => TotalFailures < MaxFailures
                              /\ cycles' = [cycles EXCEPT ![s] =
                                     Append(@, [at |-> chunk, audio |-> buffer,
                                                ok |-> outcome = "ok"])]
                              /\ IF outcome = "ok"
                                   THEN /\ \E label \in Labels :
                                             /\ active_streams' =
                                                  [active_streams EXCEPT ![s] =
                                                     [buffer  |-> <<>>,
                                                      results |-> Append(@.results,
                                                          CycleResult(s, buffer, label))]]
                                             /\ reply' = CycleResult(s, buffer, label)
                                        /\ UNCHANGED conn
                                   ELSE /\ active_streams' =
                                              [active_streams EXCEPT ![s].buffer = buffer]
                                        /\ reply' = Raised("inference")
                                        /\ HandlerFails(c)
                         ELSE /\ active_streams' =
                                    [active_streams EXCEPT ![s].buffer = buffer]
                              /\ reply' = BufferingResponse
                              /\ UNCHANGED <<cycles, conn>>
                    /\ UNCHANGED frame_log
    /\ UNCHANGED <<pipeVars, highlightVars>>
    /\ replaced' = "none"
    /\ UNCHANGED suspended

\* message video_frame -> process_video_frame; a frame that cannot be decoded
\* makes cv2.cvtColor raise.  What the detector finds in a frame is not
\* modelled: a detection reply carries no objects.
PushFrame(c, s, valid) ==
    /\ Ready(c)
    /\ IF ~Registered(s) \/ ~valid
         THEN /\ HandlerFails(c)
              /\ reply' = IF ~Registered(s) THEN NotFound(s) ELSE Raised("decode")
              /\ UNCHANGED <<active_streams, pushed, cycles, frame_log>>
         ELSE /\ TotalFrames < MaxFrames
              /\ frame_log' = [frame_log EXCEPT ![s] = Append(@, SampleFrame(s))]
              /\ reply' = IF SampleFrame(s) THEN DetectionResponse(s, <<>>)
                                            ELSE SkippedResponse
              /\ UNCHANGED <<active_streams, conn, pushed, cycles>>
    /\ UNCHANGED <<pipeVars, highlightVars>>
    /\ replaced' = "none"
    /\ UNCHANGED suspended

GetInsightsFlushes(c, s) ==
    /\ Ready(c)
    /\ IF ~Registered(s)
         THEN /\ HandlerFails(c)
              /\ UNCHANGED active_streams
         ELSE /\ active_streams' = [active_streams EXCEPT ![s].buffer = <<>>]
              /\ UNCHANGED conn
    /\ reply' = LiveInsights(s)
    /\ UNCHANGED <<pushed, cycles, frame_log, pipeVars, highlightVars>>
    /\ replaced' = "none"
    /\ UNCHANGED suspended

\* message get_insights -> get_live_insights: reads the results only
GetInsights(c, s) ==
    /\ Ready(c)
    /\ IF ~Registered(s) THEN HandlerFails(c) ELSE UNCHANGED conn
    /\ reply' = LiveInsights(s)
    /\ UNCHANGED <<active_streams, pushed, cycles, frame_log, pipeVars, highlightVars>>
    /\ replaced' = "none"
    /\ UNCHANGED suspended

EndSessionKeeps(s) ==
    /\ reply' = LiveInsights(s)
    /\ UNCHANGED <<active_streams, pushed, cycles, frame_log, conn, pipeVars, highlightVars>>
    /\ replaced' = "none"
    /\ UNCHANGED suspended

\* end_streaming_session, called on the service: an unknown id raises
\* ValueError to the caller; otherwise the final summary is computed by
\* get_live_insights and then the session is deleted
EndSession(s) ==
    /\ reply' = LiveInsights(s)
    /\ IF Registered(s)
         THEN /\ active_streams' = RemoveSession(s)
              /\ ForgetLogs({s})
              /\ suspended' = EndedFor(s)
         ELSE UNCHANGED <<active_streams, pushed, cycles, frame_log, suspended>>
    /\ UNCHANGED <<conn, pipeVars, highlightVars>>
    /\ replaced' = "none"

\* the client closes the connection normally: the message loop ends
DisconnectClean(c) ==
    /\ Ready(c)
    /\ conn' = [conn EXCEPT ![c] = [state |-> "closed", session_id |-> "none"]]
    /\ reply' = NoReply
    /\ UNCHANGED <<active_streams, pushed, cycles, frame_log, pipeVars, highlightVars>>
    /\ replaced' = "none"
    /\ UNCHANGED suspended

\* the connection breaks: ConnectionClosed is raised in the message loop and
\* the session last started over the connection, if any, is ended (what
\* end_streaming_session returns is dropped)
DisconnectAbnormal(c) ==
    /\ Ready(c)
    /\ conn' = [conn EXCEPT ![c] = [state |-> "closed", session_id |-> "none"]]
    /\ IF conn[c].session_id # "none" /\ Registered(conn[c].session_id)
         THEN /\ active_streams' = RemoveSession(conn[c].session_id)
              /\ ForgetLogs({conn[c].session_id})
              /\ suspended' = EndedFor(conn[c].session_id)
         ELSE /\ UNCHANGED <<active_streams, suspended>>
              /\ ForgetLogs({})
    /\ reply' = NoReply
    /\ UNCHANGED <<pipeVars, highlightVars>>
    /\ replaced' = "none"

(***************************************************************************)
(* process_audio_chunk with its two awaits (lines 50 and 53) as suspension  *)
(* points: while the inference calls of one client's cycle are pending,    *)
(* the handlers of other clients run.  This is what happens when the       *)
(* awaited inference yields to the event loop; with the coroutines of      *)
(* ai_services.py as they are it does not, and PushAudio above is the      *)
(* whole call.  Nothing of the service's state is read or written between  *)
(* the return of transcribe_audio and the call of analyze_sentiment, so    *)
(* the two awaits are one wait here.                                       *)
(***************************************************************************)
\* lines 34-50: the lookup, the append, and for a full buffer the join of the
\* buffered chunks handed to transcription
PushAudioBegin(c, s) ==
    /\ Ready(c)
    /\ IF ~Registered(s)
         THEN /\ HandlerFails(c)
              /\ reply' = NotFound(s)
              /\ UNCHANGED <<active_streams, pushed, suspended>>
         ELSE /\ TotalPushed < MaxChunks
              /\ LET chunk  == pushed[s] + 1
                     buffer == Append(active_streams[s].buffer, chunk)
                 IN /\ pushed' = [pushed EXCEPT ![s] = chunk]
                    /\ active_streams' = [active_streams EXCEPT ![s].buffer = buffer]
                    /\ IF BufferFull(buffer)
                         THEN /\ suspended' = [suspended EXCEPT ![c] =
                                     [session_id |-> s, combined_audio |-> buffer,
                                      at |-> chunk, ended |-> FALSE]]
                              /\ reply' = NoReply
                         ELSE /\ reply' = BufferingResponse
                              /\ UNCHANGED suspended
                    /\ UNCHANGED conn
    /\ replaced' = "none"
    /\ UNCHANGED <<cycles, frame_log, pipeVars, highlightVars>>

\* lines 50-65: the inference calls return or raise; on return the result is
\* built from len(results) of whatever session the id names now, appended to
\* it, and its buffer replaced by [].  The subscript active_streams[session_id]
\* on an id no longer registered raises KeyError.
CycleResumes(c, outcome, label) ==
    /\ Suspended(c)
    /\ outcome # "ok" => TotalFailures < MaxFailures
    /\ LET s == suspended[c].session_id
           audio == suspended[c].combined_audio
           cycle == [at |-> suspended[c].at, audio |-> audio, ok |-> outcome = "ok"]
       IN /\ cycles' = IF Registered(s) THEN [cycles EXCEPT ![s] = Append(@, cycle)]
                                        ELSE cycles
          /\ IF outcome # "ok"
               THEN /\ reply' = Raised("inference")
                    /\ HandlerFails(c)
                    /\ UNCHANGED active_streams
               ELSE IF ~Registered(s)
                 THEN /\ reply' = Raised("KeyError")
                      /\ HandlerFails(c)
                      /\ UNCHANGED active_streams
                 ELSE /\ active_streams' =
                            [active_streams EXCEPT ![s] =
                               [buffer  |-> <<>>,
                                results |-> Append(@.results, CycleResult(s, audio, label))]]
                      /\ reply' = CycleResult(s, audio, label)
                      /\ UNCHANGED conn
    /\ suspended' = [suspended EXCEPT ![c] = NoCycle]
    /\ replaced' = "none"
    /\ UNCHANGED <<pushed, frame_log, pipeVars, highlightVars>>

StreamInit ==
    /\ active_streams = <<>>
    /\ conn = [c \in Conns |-> [state |-> "closed", session_id |-> "none"]]
    /\ pushed = [s \in Sessions |-> 0]
    /\ cycles = [s \in Sessions |-> <<>>]
    /\ frame_log = [s \in Sessions |-> <<>>]
    /\ reply = NoReply
    /\ replaced = "none"
    /\ suspended = [c \in Conns |-> NoCycle]

StreamNext ==
    \/ \E c \in SeqClients : Connect(c)
    \/ \E c \in SeqClients, s \in Sessions : StartSession(c, s)
    \/ \E c \in SeqClients, s \in Sessions : PushAudio(c, s)
    \/ \E c \in SeqClients, s \in Sessions, valid \in BOOLEAN : PushFrame(c, s, valid)
    \/ \E c \in SeqClients, s \in Sessions : GetInsights(c, s)
    \/ \E s \in Sessions : EndSession(s)
    \/ \E c \in SeqClients : DisconnectClean(c)
    \/ \E c \in SeqClients : DisconnectAbnormal(c)

(***************************************************************************)
(* Highlight generator (app/services/highlight_generator.py).              *)
(*                                                                         *)
(* Times are whole seconds.  A score is a whole number of hundredths (a    *)
(* confidence of 0.85 is 85) and a fused score a whole number of           *)
(* ten-thousandths, so that the weighted sum is exact.                     *)
(***************************************************************************)
SegmentDuration == 30
EmotionWindow == 10
SentimentTimeStep == 512
SimilarityThreshold == 30
EmotionPeakThreshold == 70

Max2(a, b) == IF a >= b THEN a ELSE b
Min2(a, b) == IF a <= b THEN a ELSE b

\* max over a set of scores, starting from score = 0
MaxScore(S) == CHOOSE x \in S \cup {0} : \A y \in S \cup {0} : y <= x

\* a transcription segment: its start_time, and whether its text is empty
StartTimes == {0, 30, 31, 100}

TranscriptSegments == [start_time : StartTimes, blank : BOOLEAN]

Ordered(ts) == \A i \in 1..(Len(ts) - 1) : ts[i].start_time <= ts[i + 1].start_time

Transcripts ==
    {ts \in UNION {[1..n -> TranscriptSegments] : n \in 0..MaxSegs} : Ordered(ts)}

\* the text of the i-th transcription segment, named by i; an empty text is
\* the empty string
TextOf(ts, i) == IF ts[i].blank THEN <<>> ELSE <<i>>

\* " " in an accumulated text
Space == <<0>>

(***************************************************************************)
(* _create_time_segments: walk the transcription segments, adding each to  *)
(* the current 30-second segment or, when its start_time is past the       *)
(* current end, closing the current segment and opening the next one.      *)
(***************************************************************************)
RECURSIVE WalkSegments(_, _, _, _)
WalkSegments(ts, i, current_segment, segs) ==
    IF i > Len(ts)
      THEN IF current_segment.text # <<>> THEN Append(segs, current_segment) ELSE segs
      ELSE IF ts[i].start_time > current_segment.end
             THEN WalkSegments(ts, i + 1,
                               [start |-> current_segment.end,
                                end   |-> current_segment.end + SegmentDuration,
                                text  |-> TextOf(ts, i)],
                               Append(segs, current_segment))
             ELSE WalkSegments(ts, i + 1,
                               [current_segment EXCEPT
                                   !.text = @ \o Space \o TextOf(ts, i)],
                               segs)

CreateTimeSegments(ts) ==
    IF ts = <<>>
      THEN <<>>
      ELSE WalkSegments(ts, 1, [start |-> 0, end |-> SegmentDuration, text |-> <<>>], <<>>)

(***************************************************************************)
(* The signal extractors.  The emotion classifier, the sentence embedder   *)
(* and the video reader are collaborators: what they return is an input    *)
(* of the extractor's action.                                              *)
(***************************************************************************)
NoSignals == [emotion_peaks |-> <<>>, sentiment_changes |-> <<>>,
              topic_transitions |-> <<>>, visual_spikes |-> <<>>]

HighEnergyEmotions == {"angry", "excited", "happy", "surprised"}

Classified(label, score) == [label |-> label, score |-> score]

\* what the classifier says of the consecutive 10-second windows of the audio
Classifications ==
    {<<>>,
     <<Classified("sad", 90), Classified("happy", 60),
       Classified("calm", 50), Classified("excited", 85)>>,
     <<Classified("happy", 100), Classified("sad", 80),
       Classified("angry", 70), Classified("happy", 71)>>}

Emotions(cls) ==
    [k \in 1..Len(cls) |->
        [start      |-> EmotionWindow * (k - 1),
         end        |-> EmotionWindow * k,
         emotion    |-> cls[k].label,
         confidence |-> cls[k].score]]

IsPeak(emotion) ==
    emotion.emotion \in HighEnergyEmotions /\ emotion.confidence > EmotionPeakThreshold

\* _detect_emotional_peaks, when nothing raises
EmotionalPeaks(cls) == SelectSeq(Emotions(cls), IsPeak)

SentimentSegment(label, confidence, index) ==
    [sentiment |-> label, confidence_score |-> confidence, segment_index |-> index]

\* the sentiment_data argument: the segments analyze_sentiment returns, or
\* segments that lack the confidence_score key
SentimentInputs ==
    {[segments |-> <<>>],
     [segments |-> <<SentimentSegment("positive", 90, 0),
                     SentimentSegment("positive", 60, 1)>>],
     [segments |-> <<SentimentSegment("positive", 90, 0),
                     SentimentSegment("negative", 40, 1)>>],
     [segments |-> <<SentimentSegment("negative", 30, 0),
                     SentimentSegment("positive", 90, 0)>>],
     [segments |-> <<[sentiment |-> "positive", segment_index |-> 0],
                     [sentiment |-> "negative", segment_index |-> 1]>>]}

Has(segment, key) == key \in DOMAIN segment

Abs(x) == IF x >= 0 THEN x ELSE -x

\* _detect_sentiment_changes has no try block: a key that is missing where the
\* loop reads it raises KeyError
SentimentChangesRaise(data) ==
    \E i \in 2..Len(data.segments) :
        \/ ~Has(data.segments[i - 1], "sentiment")
        \/ ~Has(data.segments[i], "sentiment")
        \/ /\ data.segments[i - 1].sentiment # data.segments[i].sentiment
           /\ \/ ~Has(data.segments[i], "confidence_score")
              \/ ~Has(data.segments[i - 1], "confidence_score")
              \/ ~Has(data.segments[i], "segment_index")

Flips(data) ==
    SelectSeq([i \in 1..(Len(data.segments) - 1) |-> i + 1],
              LAMBDA i : data.segments[i - 1].sentiment # data.segments[i].sentiment)

\* _detect_sentiment_changes, when nothing raises
SentimentChanges(data) ==
    [k \in 1..Len(Flips(data)) |->
        LET i == Flips(data)[k]
        IN [timestamp      |-> data.segments[i].segment_index * SentimentTimeStep,
            from_sentiment |-> data.segments[i - 1].sentiment,
            to_sentiment   |-> data.segments[i].sentiment,
            intensity      |-> Abs(data.segments[i].confidence_score
                                   - data.segments[i - 1].confidence_score)]]

\* cosine similarities (in hundredths) of consecutive texts: the similarity of
\* texts i and i+1 is the pattern's first value for odd i, its second for even i
SimilarityPatterns == {<<-20, -20>>, <<20, 50>>, <<50, 20>>, <<50, 50>>}

TopicOutcomes == {"ok", "import_error", "error"}

SimilarityAt(pattern, i) == pattern[((i - 1) % 2) + 1]

LowSimilarity(pattern, n) ==
    SelectSeq([i \in 1..(n - 1) |-> i + 1],
              LAMBDA i : SimilarityAt(pattern, i - 1) < SimilarityThreshold)

\* _detect_topic_transitions, when the embedder returns
TopicTransitions(ts, pattern) ==
    [k \in 1..Len(LowSimilarity(pattern, Len(ts))) |->
        LET i == LowSimilarity(pattern, Len(ts))[k]
        IN [timestamp  |-> ts[i].start_time,
            similarity |-> SimilarityAt(pattern, i - 1),
            intensity  |-> 100 - SimilarityAt(pattern, i - 1)]]

Spike(t, level) == [timestamp |-> t, activity_level |-> level]

\* what _detect_visual_activity_spikes finds: frames are sampled every 5
\* seconds and a spike has a mean difference above 30 of 255
VisualSpikeLists == {<<>>, <<Spike(35, 80)>>, <<Spike(5, 100), Spike(105, 50)>>}

(***************************************************************************)
(* Scoring a time segment against the signals, and fusion.                 *)
(***************************************************************************)
WeightEmotion == 30
WeightSentiment == 25
WeightTopic == 25
WeightVisual == 20
HighlightThreshold == 5000
EmotionReasonThreshold == 70
SentimentReasonThreshold == 60
TopicReasonThreshold == 60
VisualReasonThreshold == 70
TopHighlights == 10

Items(seq) == {seq[i] : i \in DOMAIN seq}

Within(segment, t) == segment.start <= t /\ t <= segment.end

\* _get_emotion_score_for_segment
EmotionScore(emotion_peaks, segment) ==
    MaxScore({peak.confidence : peak \in
                {q \in Items(emotion_peaks) :
                    q.start <= segment.end /\ q.end >= segment.start}})

\* _get_sentiment_change_score
SentimentChangeScore(sentiment_changes, segment) ==
    MaxScore({change.intensity : change \in
                {q \in Items(sentiment_changes) : Within(segment, q.timestamp)}})

\* _get_topic_transition_score
TopicTransitionScore(topic_transitions, segment) ==
    MaxScore({transition.intensity : transition \in
                {q \in Items(topic_transitions) : Within(segment, q.timestamp)}})

\* _get_visual_activity_score
VisualActivityScore(visual_spikes, segment) ==
    MaxScore({spike.activity_level : spike \in
                {q \in Items(visual_spikes) : Within(segment, q.timestamp)}})

\* score = 0.3 emotion + 0.25 sentiment + 0.25 topic + 0.2 visual
FusedScore(sig, segment) ==
    WeightEmotion * EmotionScore(sig.emotion_peaks, segment)
    + WeightSentiment * SentimentChangeScore(sig.sentiment_changes, segment)
    + WeightTopic * TopicTransitionScore(sig.topic_transitions, segment)
    + WeightVisual * VisualActivityScore(sig.visual_spikes, segment)

Reasons(sig, segment) ==
    (IF EmotionScore(sig.emotion_peaks, segment) > EmotionReasonThreshold
       THEN <<"emotional">> ELSE <<>>)
    \o (IF SentimentChangeScore(sig.sentiment_changes, segment) > SentimentReasonThreshold
          THEN <<"sentiment">> ELSE <<>>)
    \o (IF TopicTransitionScore(sig.topic_transitions, segment) > TopicReasonThreshold
          THEN <<"topic">> ELSE <<>>)
    \o (IF VisualActivityScore(sig.visual_spikes, segment) > VisualReasonThreshold
          THEN <<"visual">> ELSE <<>>)

\* _classify_highlight_type
ClassifyHighlightType(reasons) ==
    IF "emotional" \in Items(reasons) THEN "emotional_moment"
    ELSE IF "sentiment" \in Items(reasons) THEN "sentiment_shift"
    ELSE IF "topic" \in Items(reasons) THEN "topic_transition"
    ELSE IF "visual" \in Items(reasons) THEN "visual_activity"
    ELSE "general_interest"

Highlight(sig, segment) ==
    [start_time |-> segment.start,
     end_time   |-> segment.end,
     score      |-> FusedScore(sig, segment),
     reasons    |-> Reasons(sig, segment),
     text       |-> segment.text,
     type       |-> ClassifyHighlightType(Reasons(sig, segment))]

\* keys are tuples, compared as Python compares tuples of equal length
KeyGreater(a, b) ==
    \E i \in DOMAIN a : a[i] > b[i] /\ \A j \in 1..(i - 1) : a[j] = b[j]

\* list.sort(key, reverse=True) and sorted(key, reverse=True): descending
\* and stable; key[i] is the key of seq[i]
SortDescending(seq, key) ==
    LET n == Len(seq)
        place(i) == 1 + Cardinality({j \in 1..n : KeyGreater(key[j], key[i])})
                      + Cardinality({j \in 1..(i - 1) : key[j] = key[i]})
    IN [p \in 1..n |-> seq[CHOOSE i \in 1..n : place(i) = p]]

\* key=lambda x: x["score"]
HigherScore(seq) == [k \in DOMAIN seq |-> <<seq[k].score>>]

ScoredHighlightsFromHalf(sig, segs) ==
    LET above == SelectSeq(segs, LAMBDA segment : FusedScore(sig, segment) >= HighlightThreshold)
        found == [k \in 1..Len(above) |-> Highlight(sig, above[k])]
        ranked == SortDescending(found, HigherScore(found))
    IN SubSeq(ranked, 1, Min2(TopHighlights, Len(ranked)))

\* the loop over the segments, the sort and the cut to the top 10
ScoredHighlights(sig, segs) ==
    LET above == SelectSeq(segs, LAMBDA segment : FusedScore(sig, segment) > HighlightThreshold)
        found == [k \in 1..Len(above) |-> Highlight(sig, above[k])]
        ranked == SortDescending(found, HigherScore(found))
    IN SubSeq(ranked, 1, Min2(TopHighlights, Len(ranked)))

(***************************************************************************)
(* create_smart_highlight_reel: sort, then accept clips while the total    *)
(* duration is below max_duration, trimming the clip that would exceed it. *)
(* Rendering (titles, concatenation, writing the file) is left to the      *)
(* video library; its failure is the action's not-ok outcome.              *)
(***************************************************************************)
ClipPadding == 2
DefaultMaxDuration == 120

\* the highlights argument: candidates of detect_highlight_moments' shape
Candidate(start, score) ==
    [start_time |-> start, end_time |-> start + SegmentDuration, score |-> score,
     type |-> "general_interest"]

CandidatePool ==
    {Candidate(start, score) : start \in {0, 30, 60}, score \in {6000, 8000}}

CandidateLists == UNION {[1..n -> CandidatePool] : n \in 0..MaxClips}

VideoDurations == {91, 200}

MaxDurations == {0, 34, 50, DefaultMaxDuration}

HigherScoreThenEarlier(seq) == [k \in DOMAIN seq |-> <<seq[k].score, 0 - seq[k].start_time>>]

\* key=lambda x: (x["score"], x["start_time"]), reverse=True
HigherScoreThenLater(seq) == [k \in DOMAIN seq |-> <<seq[k].score, seq[k].start_time>>]

RECURSIVE AcceptClips(_, _, _, _, _, _)
AcceptClips(sorted_highlights, i, clips, total_duration, video_duration, max_duration) ==
    IF i > Len(sorted_highlights) \/ total_duration >= max_duration
      THEN clips
      ELSE LET highlight == sorted_highlights[i]
               start == Max2(0, highlight.start_time - ClipPadding)
               end == Min2(video_duration, highlight.end_time + ClipPadding)
               clip_duration == end - start
               over == total_duration + clip_duration > max_duration
               kept == IF over THEN max_duration - total_duration ELSE clip_duration
           IN AcceptClips(sorted_highlights, i + 1,
                          Append(clips, [start     |-> start,
                                         end       |-> start + kept,
                                         highlight |-> highlight]),
                          total_duration + kept, video_duration, max_duration)

ReelClipsOverBudget(hl, video_duration, max_duration) ==
    LET sorted_highlights == SortDescending(hl, HigherScoreThenLater(hl))
    IN [k \in 1..Len(sorted_highlights) |->
           [start     |-> Max2(0, sorted_highlights[k].start_time - ClipPadding),
            end       |-> Min2(video_duration, sorted_highlights[k].end_time + ClipPadding),
            highlight |-> sorted_highlights[k]]]

ReelClips(hl, video_duration, max_duration) ==
    AcceptClips(SortDescending(hl, HigherScoreThenLater(hl)), 1, <<>>, 0,
                video_duration, max_duration)

NoReel == [status |-> "none"]

ReelOutcome(hl, video_duration, max_duration, outcome, clips) ==
    [highlights |-> hl, video_duration |-> video_duration,
     max_duration |-> max_duration, status |-> outcome, clips |-> clips]

(***************************************************************************)
(* detect_highlight_moments, one action per step of its body.              *)
(***************************************************************************)
\* the call, with its transcription_segments argument
DetectHighlightMoments ==
    /\ hpc = "idle"
    /\ \E ts \in Transcripts : transcript' = ts
    /\ hpc' = "emotion"
    /\ UNCHANGED <<signals, failed, segments, highlights, reel, pipeVars, streamVars>>

\* an exception anywhere in _detect_emotional_peaks is logged and [] returned
DetectEmotionalPeaks(ok, cls) ==
    /\ hpc = "emotion"
    /\ signals' = [signals EXCEPT !.emotion_peaks = IF ok THEN EmotionalPeaks(cls) ELSE <<>>]
    /\ failed' = IF ok THEN failed ELSE failed \cup {"emotion"}
    /\ hpc' = "sentiment"
    /\ UNCHANGED <<transcript, segments, highlights, reel, pipeVars, streamVars>>

\* _detect_sentiment_changes is called outside any try block: what it raises
\* leaves detect_highlight_moments
DetectSentimentChanges(data) ==
    /\ hpc = "sentiment"
    /\ IF SentimentChangesRaise(data)
         THEN /\ failed' = failed \cup {"sentiment"}
              /\ hpc' = "raised"
              /\ UNCHANGED signals
         ELSE /\ signals' = [signals EXCEPT !.sentiment_changes = SentimentChanges(data)]
              /\ hpc' = "topic"
              /\ UNCHANGED failed
    /\ UNCHANGED <<transcript, segments, highlights, reel, pipeVars, streamVars>>

\* fewer than 2 segments: [] before anything is tried; a missing
\* sentence_transformers (ImportError) and any other exception give []
DetectTopicTransitions(outcome, pattern) ==
    /\ hpc = "topic"
    /\ IF Len(transcript) < 2
         THEN UNCHANGED <<signals, failed>>
         ELSE /\ signals' = [signals EXCEPT !.topic_transitions =
                                IF outcome = "ok" THEN TopicTransitions(transcript, pattern)
                                                  ELSE <<>>]
              /\ failed' = IF outcome = "ok" THEN failed ELSE failed \cup {"topic"}
    /\ hpc' = "visual"
    /\ UNCHANGED <<transcript, segments, highlights, reel, pipeVars, streamVars>>

\* an exception anywhere in _detect_visual_activity_spikes is logged and []
\* returned
DetectVisualActivitySpikes(ok, spikes) ==
    /\ hpc = "visual"
    /\ signals' = [signals EXCEPT !.visual_spikes = IF ok THEN spikes ELSE <<>>]
    /\ failed' = IF ok THEN failed ELSE failed \cup {"visual"}
    /\ hpc' = "segments"
    /\ UNCHANGED <<transcript, segments, highlights, reel, pipeVars, streamVars>>

\* segments = self._create_time_segments(transcription_segments)
SegmentTimeline ==
    /\ hpc = "segments"
    /\ segments' = CreateTimeSegments(transcript)
    /\ hpc' = "score"
    /\ UNCHANGED <<transcript, signals, failed, highlights, reel, pipeVars, streamVars>>

\* the scoring loop, the sort and the return
ScoreSegments ==
    /\ hpc = "score"
    /\ highlights' = ScoredHighlights(signals, segments)
    /\ hpc' = "done"
    /\ UNCHANGED <<transcript, signals, failed, segments, reel, pipeVars, streamVars>>

\* create_smart_highlight_reel: the video library failing (opening the video,
\* rendering) or an empty clip list raises
CreateSmartHighlightReel ==
    /\ hpc = "idle"
    /\ \E hl \in CandidateLists, video_duration \in VideoDurations,
          max_duration \in MaxDurations, ok \in BOOLEAN :
         LET clips == ReelClips(hl, video_duration, max_duration)
         IN reel' = IF ~ok
                      THEN ReelOutcome(hl, video_duration, max_duration, "raised", <<>>)
                    ELSE IF clips = <<>>
                      THEN ReelOutcome(hl, video_duration, max_duration, "ValueError", <<>>)
                    ELSE ReelOutcome(hl, video_duration, max_duration, "written", clips)
    /\ hpc' = "reel"
    /\ UNCHANGED <<transcript, signals, failed, segments, highlights, pipeVars, streamVars>>

HighlightInit ==
    /\ hpc = "idle"
    /\ transcript = <<>>
    /\ signals = NoSignals
    /\ failed = {}
    /\ segments = <<>>
    /\ highlights = <<>>
    /\ reel = NoReel

HighlightNext ==
    \/ DetectHighlightMoments
    \/ \E ok \in BOOLEAN, cls \in Classifications : DetectEmotionalPeaks(ok, cls)
    \/ \E data \in SentimentInputs : DetectSentimentChanges(data)
    \/ \E outcome \in TopicOutcomes, pattern \in SimilarityPatterns :
           DetectTopicTransitions(outcome, pattern)
    \/ \E ok \in BOOLEAN, spikes \in VisualSpikeLists : DetectVisualActivitySpikes(ok, spikes)
    \/ SegmentTimeline
    \/ ScoreSegments
    \/ CreateSmartHighlightReel

Init == PipeInit /\ StreamInit /\ HighlightInit

SpecPipeline == Init /\ [][PipeNext]_vars

SpecStream == Init /\ [][StreamNext]_vars

\* one client driving a single session id through its life
OneSession == {"s1"}

SessionNext ==
    \/ \E c \in SeqClients : Connect(c)
    \/ \E c \in SeqClients, s \in OneSession : StartSession(c, s)
    \/ \E c \in SeqClients, s \in OneSession : PushAudio(c, s)
    \/ \E c \in SeqClients, s \in OneSession, valid \in BOOLEAN : PushFrame(c, s, valid)
    \/ \E c \in SeqClients, s \in OneSession : GetInsights(c, s)
    \/ \E s \in OneSession : EndSession(s)
    \/ \E c \in SeqClients : DisconnectClean(c)
    \/ \E c \in SeqClients : DisconnectAbnormal(c)

SpecSession == Init /\ [][SessionNext]_vars

SpecHighlights == Init /\ [][HighlightNext]_vars

\* two clients on one session id, the inference calls as suspension points
InterleavedNext ==
    \/ \E c \in Conns : Connect(c)
    \/ \E c \in Conns, s \in OneSession : StartSession(c, s)
    \/ \E c \in Conns, s \in OneSession : PushAudioBegin(c, s)
    \/ \E c \in Conns, outcome \in Outcomes, label \in Labels : CycleResumes(c, outcome, label)
    \/ \E s \in OneSession : EndSession(s)
    \/ \E c \in Conns : DisconnectAbnormal(c)

SpecInterleaved == Init /\ [][InterleavedNext]_vars

(***************************************************************************)
(* Batch pipeline: what the call log of a run says.                        *)
(***************************************************************************)
StageNames == {"extract_audio", "transcription", "summarization", "sentiment",
               "object_detection"}

\* the stages whose result is a stage record of the job
ResultStages == {"transcription", "summarization", "sentiment", "object_detection"}

Returned(j, stage) ==
    \E i \in DOMAIN calls[j] : calls[j][i].stage = stage /\ calls[j][i].ok

Failed(j, stage) ==
    \E i \in DOMAIN calls[j] : calls[j][i].stage = stage /\ ~calls[j][i].ok

RowsReturned(j, stage) ==
    IF Returned(j, stage)
      THEN (CHOOSE c \in {calls[j][i] : i \in DOMAIN calls[j]} :
                c.stage = stage /\ c.ok).rows
      ELSE 0

ReturnedRows(j) ==
    [transcription |-> RowsReturned(j, "transcription"),
     summary       |-> RowsReturned(j, "summarization"),
     sentiment     |-> RowsReturned(j, "sentiment"),
     objects       |-> RowsReturned(j, "object_detection")]

CompletedKinds(j) == {st \in ResultStages : Returned(j, st)}

AllowedTransitions ==
    {<<"none", "uploaded">>, <<"uploaded", "processing">>,
     <<"processing", "completed">>, <<"processing", "error">>}

\* C1: the stored status of a job changes only along uploaded -> processing ->
\* completed or processing -> error, whatever step of the run raises: completed
\* and error are never left and uploaded is never re-entered.
C1_StatusMonotonic ==
    [][\A j \in Jobs :
         status'[j] # status[j] => <<status[j], status'[j]>> \in AllowedTransitions]_vars

\* C2: once a stage call of a run has raised, that call is the last call of the
\* run (no later stage, no retry, no publication), no document of the job is in
\* the index, and the run ends with the status error.
C2_StageFailureAborts ==
    \A j \in Jobs : \A i \in DOMAIN calls[j] :
        (calls[j][i].stage \in StageNames /\ ~calls[j][i].ok) =>
            /\ i = Len(calls[j])
            /\ j \notin es_index
            /\ (pc[j] \in {"done", "aborted"} => status[j] = "error")

\* C3: a job whose status is completed has had transcription, summarization and
\* sentiment analysis (and object detection for a video) return, and the rows
\* they returned are the rows stored for the job.
C3_CompletedHasAllStages ==
    \A j \in Jobs :
        status[j] = "completed" =>
            /\ Returned(j, "transcription")
            /\ Returned(j, "summarization")
            /\ Returned(j, "sentiment")
            /\ (file_type[j] = "video" => Returned(j, "object_detection"))
            /\ tables[j] = ReturnedRows(j)
            /\ tables[j].transcription = 1
            /\ tables[j].summary = 1

C3_Witness ==
    \E j \in Jobs :
        /\ status[j] = "completed"
        /\ file_type[j] = "video"
        /\ tables[j].sentiment = 1
        /\ tables[j].objects = 1

\* C4: at any point of a job's run get-status returns the job's current status
\* and a map with one entry per stage kind that has completed for the job so
\* far; the map of a completed job holds transcript, summary and sentiment.
C4_StatusReportsStages ==
    \A j \in Jobs :
        status[j] # "none" =>
            /\ ProcessingStatus(j).status = status[j]
            /\ ProcessingStatus(j).results = CompletedKinds(j)
            /\ (status[j] = "completed" =>
                  {"transcription", "summarization", "sentiment"}
                      \subseteq ProcessingStatus(j).results)

\* C5: publication of a job's document is attempted only when the stored status
\* is completed, and no job with a document published (or attempted) has the
\* status uploaded, processing or error.
C5_PublishOnlyCompleted ==
    \A j \in Jobs :
        (pc[j] = "publish" \/ Returned(j, "index") \/ Failed(j, "index") \/ j \in es_index)
            => status[j] = "completed"

C5_Witness ==
    \E j \in Jobs : j \in es_index /\ Returned(j, "index")

\* C6: when publishing the document fails, the job's status stays completed,
\* its stored stage rows stay what the stages returned, and the run ends
\* normally (the failure is only logged).
C6_IndexFailureKeepsCompleted ==
    \A j \in Jobs :
        Failed(j, "index") =>
            /\ status[j] = "completed"
            /\ tables[j] = ReturnedRows(j)
            /\ pc[j] = "done"
            /\ j \notin es_index

C6_Witness ==
    \E j \in Jobs : Failed(j, "index") /\ tables[j].transcription = 1

(***************************************************************************)
(* Streaming: what the logs of a session say.                              *)
(***************************************************************************)
\* the chunks a, a+1, ..., b in arrival order
ChunkRun(a, b) == [i \in 1..(b - a + 1) |-> a + i - 1]

ChunksOf(audio) == {audio[i] : i \in DOMAIN audio}

AllCyclesOk(s) == \A k \in DOMAIN cycles[s] : cycles[s][k].ok

OkCycles(s) == {k \in DOMAIN cycles[s] : cycles[s][k].ok}

\* C7: with inference succeeding, a push runs an inference cycle iff it is the
\* 5th, 10th, ... push of the session (every other push returns buffering);
\* the k-th cycle transcribes exactly the chunks 5k-4..5k in arrival order and
\* appends one result, the buffer holds only the chunks pushed since the last
\* cycle, and no other operation adds a cycle.
C7_EveryFifthPush ==
    \A s \in Sessions :
        (Registered(s) /\ AllCyclesOk(s)) =>
            /\ Len(cycles[s]) = pushed[s] \div 5
            /\ \A k \in DOMAIN cycles[s] :
                 /\ cycles[s][k].at = 5 * k
                 /\ cycles[s][k].audio = ChunkRun(5 * k - 4, 5 * k)
            /\ active_streams[s].buffer = ChunkRun(5 * (pushed[s] \div 5) + 1, pushed[s])
            /\ Len(active_streams[s].results) = Len(cycles[s])
            /\ \A k \in DOMAIN cycles[s] :
                 active_streams[s].results[k].transcription = cycles[s][k].audio

C7_Witness ==
    \E s \in Sessions :
        /\ Registered(s)
        /\ AllCyclesOk(s)
        /\ pushed[s] = 11
        /\ Len(cycles[s]) = 2
        /\ active_streams[s].buffer = <<11>>
        /\ Len(frame_log[s]) = 2

\* C8: an inference cycle that fails appends no result, leaves the buffer
\* empty, and every later cycle of the session starts at least 5 chunks later
\* and contains none of the failed cycle's chunks.
C8_FailedCycleClearsBuffer ==
    \A s \in Sessions :
        Registered(s) =>
            /\ Len(active_streams[s].results) = Cardinality(OkCycles(s))
            /\ \A k \in DOMAIN cycles[s] :
                 ~cycles[s][k].ok =>
                     /\ (k = Len(cycles[s]) /\ cycles[s][k].at = pushed[s])
                            => active_streams[s].buffer = <<>>
                     /\ \A m \in DOMAIN cycles[s] :
                          m > k =>
                              /\ cycles[s][m].at >= cycles[s][k].at + 5
                              /\ ChunksOf(cycles[s][m].audio)
                                     \cap ChunksOf(cycles[s][k].audio) = {}

\* C9: the step in which a client's audio chunk ends in an inference failure
\* leaves the session registered and the client's message loop running, so
\* that the client's later messages for the session are processed.
C9_FailureKeepsServing ==
    [][\A c \in Conns, s \in Sessions :
         (/\ PushAudio(c, s)
          /\ Len(cycles'[s]) = Len(cycles[s]) + 1
          /\ ~cycles'[s][Len(cycles'[s])].ok)
            => (s \in DOMAIN active_streams' /\ conn'[c].state = "open")]_vars

\* C10: among the frames pushed to a session, whatever audio is pushed in
\* between, detection is invoked for exactly one frame of every 10 consecutive
\* frames (so never twice within 10 consecutive frames), the other frames are
\* skipped, and the skipped status differs from a detection result without
\* objects.
C10_EveryTenthFrame ==
    \A s \in Sessions :
        /\ \A i, j \in DOMAIN frame_log[s] :
             (i < j /\ j - i < 10) => ~(frame_log[s][i] /\ frame_log[s][j])
        /\ \A i \in DOMAIN frame_log[s] :
             i + 9 <= Len(frame_log[s]) => \E k \in i..(i + 9) : frame_log[s][k]
        /\ Registered(s) => SkippedResponse # DetectionResponse(s, <<>>)

(***************************************************************************)
(* Streaming: the aggregate of a session.                                  *)
(***************************************************************************)
\* the reply is an aggregate of get_live_insights over a non-empty history
IsAggregate(r) == "sentiment_trend" \in DOMAIN r

\* the history has at least 3 results and the last 3 carry the label
LastThreeAre(results, label) ==
    /\ Len(results) >= 3
    /\ \A i \in (Len(results) - 2)..Len(results) : results[i].sentiment = label

TrendOf(results) ==
    IF LastThreeAre(results, "positive") THEN "improving"
    ELSE IF LastThreeAre(results, "negative") THEN "declining"
    ELSE "stable"

\* C11: for a session with a non-empty history, get-live-insights reports the
\* trend improving iff the history has at least 3 results and the last 3 are
\* all positive, declining iff it has at least 3 and the last 3 are all
\* negative, and stable in every other case; this holds of what the operation
\* would return in any state and of what it did return in the last step.
C11_SentimentTrend ==
    \A s \in Sessions :
        (Registered(s) /\ active_streams[s].results # <<>>) =>
            LET h == active_streams[s].results
            IN /\ IsAggregate(LiveInsights(s))
               /\ LiveInsights(s).sentiment_trend = "improving"
                      <=> LastThreeAre(h, "positive")
               /\ LiveInsights(s).sentiment_trend = "declining"
                      <=> LastThreeAre(h, "negative")
               /\ LiveInsights(s).sentiment_trend = "stable"
                      <=> (Len(h) < 3 \/ (~LastThreeAre(h, "positive")
                                            /\ ~LastThreeAre(h, "negative")))
               /\ (IsAggregate(reply) /\ reply.session_id = s)
                      => reply.sentiment_trend = TrendOf(h)

C11_Witness ==
    \E s \in Sessions :
        /\ Registered(s)
        /\ Len(active_streams[s].results) = 3
        /\ IsAggregate(reply)
        /\ reply.session_id = s
        /\ reply.sentiment_trend = "declining"

\* C12: get-live-insights on a registered session returns {status: no_data}
\* exactly when the session's history is empty: it does after 4 pushed chunks,
\* and once the 5th chunk has completed its cycle it returns an aggregate (one
\* result, 5 seconds) whose trend is stable; the call changes neither the
\* buffer nor the history of any session.
C12_NoDataIffEmptyHistory ==
    [][\A c \in Conns, s \in Sessions :
         (GetInsights(c, s) /\ Registered(s)) =>
             /\ active_streams' = active_streams
             /\ (reply' = NoData) <=> (active_streams[s].results = <<>>)
             /\ pushed[s] <= 4 => reply' = NoData
             /\ (pushed[s] = 5 /\ AllCyclesOk(s)) =>
                    /\ IsAggregate(reply')
                    /\ reply'.sentiment_trend = "stable"
                    /\ reply'.session_duration = 5
                    /\ reply'.recent_transcription = ChunkRun(1, 5)]_vars

C12_Witness ==
    \E s \in Sessions :
        /\ Registered(s)
        /\ pushed[s] = 5
        /\ Len(active_streams[s].results) = 1
        /\ IsAggregate(reply)
        /\ reply.session_id = s
        /\ reply.sentiment_trend = "stable"

\* C13: a step of end-session(id) on a registered id removes id from the
\* registry, leaves every other session as it was and returns the aggregate
\* get-live-insights had for id just before; while id is not registered,
\* push-audio-chunk, push-video-frame, get-live-insights and end-session on id
\* each fail with the not-found error and leave the registry unchanged, a
\* not-found reply for id is only given while id is not registered, and only
\* start-session(id) registers id again.
C13_EndedSessionNotFound ==
    [][\A s \in Sessions :
         /\ (EndSession(s) /\ Registered(s)) =>
                /\ s \notin DOMAIN active_streams'
                /\ active_streams' = RemoveSession(s)
                /\ reply' = Aggregate(s, active_streams[s].results)
         /\ ~Registered(s) =>
                /\ EndSession(s) =>
                       (reply' = NotFound(s) /\ active_streams' = active_streams)
                /\ \A c \in Conns :
                       (\/ PushAudio(c, s)
                        \/ \E valid \in BOOLEAN : PushFrame(c, s, valid)
                        \/ GetInsights(c, s)) =>
                           (reply' = NotFound(s) /\ active_streams' = active_streams)
                /\ s \in DOMAIN active_streams' => \E c \in Conns : StartSession(c, s)
         /\ reply' = NotFound(s) => s \notin DOMAIN active_streams']_vars

\* the session has been ended and its final aggregate returned
C13_Witness ==
    \E s \in Sessions :
        /\ ~Registered(s)
        /\ IsAggregate(reply)
        /\ reply.session_id = s
        /\ reply.session_duration = 10

(***************************************************************************)
(* Highlight generator: the reel plan.                                     *)
(***************************************************************************)
ClipLength(clip) == clip.end - clip.start

RECURSIVE SumLengths(_)
SumLengths(clips) ==
    IF clips = <<>> THEN 0 ELSE ClipLength(Head(clips)) + SumLengths(Tail(clips))

\* the candidate's interval padded by 2 seconds and clamped to the media
PaddedStart(clip) == Max2(0, clip.highlight.start_time - 2)
PaddedEnd(clip) == Min2(reel.video_duration, clip.highlight.end_time + 2)

Untrimmed(clip) == clip.start = PaddedStart(clip) /\ clip.end = PaddedEnd(clip)

\* the clip was cut short of its padded candidate
Trimmed(clip) == clip.start = PaddedStart(clip) /\ clip.end < PaddedEnd(clip)

SomeTrimmed == \E k \in DOMAIN reel.clips : Trimmed(reel.clips[k])

\* C14 as stated: the durations of the accepted clips sum to at most the max
\* duration, and to exactly the max duration only if an accepted clip was
\* trimmed.
C14_ReelDurationBound ==
    reel.status = "written" =>
        /\ SumLengths(reel.clips) <= reel.max_duration
        /\ SumLengths(reel.clips) = reel.max_duration => SomeTrimmed

\* C14 amended: the durations of the accepted clips sum to at most the max
\* duration; the sum is exactly the max duration whenever a clip was trimmed,
\* and when it is the max duration either a clip was trimmed or every clip is
\* its whole padded candidate (the candidates fill the budget exactly).
C14_ReelDurationBoundExactFit ==
    reel.status = "written" =>
        /\ SumLengths(reel.clips) <= reel.max_duration
        /\ SomeTrimmed => SumLengths(reel.clips) = reel.max_duration
        /\ SumLengths(reel.clips) = reel.max_duration =>
              (SomeTrimmed \/ \A k \in DOMAIN reel.clips : Untrimmed(reel.clips[k]))
        /\ \A k \in DOMAIN reel.clips :
              Untrimmed(reel.clips[k]) \/ Trimmed(reel.clips[k])

C14_Witness ==
    /\ reel.status = "written"
    /\ Len(reel.clips) = 2
    /\ Trimmed(reel.clips[2])
    /\ SumLengths(reel.clips) = reel.max_duration

(***************************************************************************)
(* Highlight generator: the candidates of detect_highlight_moments.        *)
(***************************************************************************)
\* the time segment a highlight was made from
SegmentOf(h) == [start |-> h.start_time, end |-> h.end_time, text |-> h.text]

UnitScore(x) == 0 <= x /\ x <= 100

\* C15: for every highlight detect_highlight_moments returns, the emotion,
\* sentiment-change, topic-transition and visual-activity scores of its segment
\* lie in [0,1] (0..100 hundredths) and its fused score lies in [0,1]
\* (0..10000 ten-thousandths).
C15_ScoresBounded ==
    hpc = "done" =>
        \A k \in DOMAIN highlights :
            /\ UnitScore(EmotionScore(signals.emotion_peaks, SegmentOf(highlights[k])))
            /\ UnitScore(SentimentChangeScore(signals.sentiment_changes,
                                              SegmentOf(highlights[k])))
            /\ UnitScore(TopicTransitionScore(signals.topic_transitions,
                                              SegmentOf(highlights[k])))
            /\ UnitScore(VisualActivityScore(signals.visual_spikes,
                                             SegmentOf(highlights[k])))
            /\ 0 <= highlights[k].score
            /\ highlights[k].score <= 10000

(***************************************************************************)
(* Highlight generator: the time segments.                                 *)
(***************************************************************************)
Segmented == hpc \in {"score", "done"}

\* the time of the last transcription segment
LastTime(ts) == ts[Len(ts)].start_time

\* one segment_duration wide, the first from 0, each starting where the one before ends
Contiguous(segs) ==
    /\ \A k \in DOMAIN segs : segs[k].end = segs[k].start + SegmentDuration
    /\ segs # <<>> => segs[1].start = 0
    /\ \A k \in 1..(Len(segs) - 1) : segs[k + 1].start = segs[k].end

\* C16: for a non-empty transcript ordered by start time, the segments
\* _create_time_segments returns are 30 seconds wide, pairwise non-overlapping
\* and contiguous from 0, and together they cover [0, T], T being the time of
\* the last transcription segment.
C16_SegmentsCoverTimeline ==
    (Segmented /\ transcript # <<>>) =>
        /\ Contiguous(segments)
        /\ segments # <<>>
        /\ segments[Len(segments)].end >= LastTime(transcript)

(***************************************************************************)
(* Highlight generator: degradation.                                       *)
(***************************************************************************)
\* a call of detect_highlight_moments has started
Requested == hpc \notin {"idle", "reel"}

Scored == hpc = "done"

\* C17: if all four signal extractors return empty lists, or the transcript
\* has no segments, detect_highlight_moments returns an empty list and does
\* not raise.
C17_NothingToScoreIsEmpty ==
    /\ (Scored /\ signals = NoSignals) => highlights = <<>>
    /\ (Requested /\ transcript = <<>>) =>
           /\ hpc # "raised"
           /\ Scored => highlights = <<>>

\* C18: an extractor that fails internally yields an empty signal list, and
\* detect_highlight_moments goes on to return a result computed from the
\* other signals; a missing sentence_transformers counts as a failure of the
\* topic extractor.
C18_ExtractorFailureContained ==
    /\ hpc # "raised"
    /\ "emotion" \in failed => signals.emotion_peaks = <<>>
    /\ "sentiment" \in failed => signals.sentiment_changes = <<>>
    /\ "topic" \in failed => signals.topic_transitions = <<>>
    /\ "visual" \in failed => signals.visual_spikes = <<>>

(***************************************************************************)
(* Highlight reel: nothing to accept.                                      *)
(***************************************************************************)
\* an empty candidate list, or no budget from the start
NothingAcceptable == reel.highlights = <<>> \/ reel.max_duration = 0

\* C19: reel assembly that can accept no candidate (empty candidate list, or
\* a budget of 0 from the start) completes normally with an empty plan; it
\* does not raise.  (A failure of the video library itself is set aside.)
C19_EmptyReelCompletes ==
    (hpc = "reel" /\ reel.status # "raised" /\ NothingAcceptable) =>
        /\ reel.status = "written"
        /\ reel.clips = <<>>

(***************************************************************************)
(* Pipeline: the order of the stages.                                      *)
(***************************************************************************)
PipelineStages ==
    {"extract_audio", "transcription", "summarization", "sentiment",
     "object_detection", "index"}

\* summarization and sentiment share a rank: the claim leaves their mutual
\* order open
StageRank(stage) ==
    CASE stage = "extract_audio" -> 1
      [] stage = "transcription" -> 2
      [] stage \in {"summarization", "sentiment"} -> 3
      [] stage = "object_detection" -> 4
      [] stage = "index" -> 5

\* the positions in job j's log at which the stage was started
StartsOf(j, stage) == {i \in DOMAIN calls[j] : calls[j][i].stage = stage}

StageStarted(j, stage) == StartsOf(j, stage) # {}

\* C20: in every run of process_media_file the stages start in the order
\* audio extraction (iff the file is a video), transcription, summarization
\* and sentiment, object detection (iff the file is a video), index
\* publication; a stage after transcription starts only once transcription
\* has returned; summarization and sentiment are given the transcript text
\* and nothing else.
C20_StageOrder ==
    \A j \in Jobs :
        /\ \A i \in DOMAIN calls[j] : calls[j][i].stage \in PipelineStages
        /\ \A stage \in PipelineStages : Cardinality(StartsOf(j, stage)) <= 1
        /\ \A i, k \in DOMAIN calls[j] :
               i < k => StageRank(calls[j][i].stage) <= StageRank(calls[j][k].stage)
        /\ \A i \in DOMAIN calls[j] :
               StageRank(calls[j][i].stage) > StageRank("transcription") =>
                   \E t \in StartsOf(j, "transcription") : t < i /\ calls[j][t].ok
        /\ StageStarted(j, "extract_audio") => file_type[j] = "video"
        /\ (file_type[j] = "video" /\ StageStarted(j, "transcription")) =>
               StageStarted(j, "extract_audio")
        /\ StageStarted(j, "object_detection") => file_type[j] = "video"
        /\ (file_type[j] = "video" /\ StageStarted(j, "index")) =>
               StageStarted(j, "object_detection")
        /\ (StageStarted(j, "object_detection") \/ StageStarted(j, "index")) =>
               (StageStarted(j, "summarization") /\ StageStarted(j, "sentiment"))
        /\ \A i \in DOMAIN calls[j] :
               calls[j][i].stage \in {"summarization", "sentiment"} =>
                   calls[j][i].input = "transcript_text"

\* a video and an audio file, both taken through every stage to the index
C20_Witness ==
    \E j, k \in Jobs :
        /\ file_type[j] = "video" /\ StageStarted(j, "index")
        /\ file_type[k] = "audio" /\ StageStarted(k, "index")

(***************************************************************************)
(* Pipeline: how a run ends.                                               *)
(***************************************************************************)
\* the background task of job j has returned, or an exception has left it
RunEnded(j) == pc[j] \in {"done", "aborted"}

\* C21: every collaborator call returning or raising, a run that has started
\* ends with the job's stored status completed or error: no run ends leaving
\* the job uploaded or processing.
C21_RunEndsCompletedOrError ==
    \A j \in Jobs : RunEnded(j) => status[j] \in {"completed", "error"}

(***************************************************************************)
(* Streaming: the result history.                                          *)
(***************************************************************************)
\* the inference cycles of session s that completed, in order
CompletedCycles(s) == SelectSeq(cycles[s], LAMBDA cycle : cycle.ok)

\* one entry per completed cycle, in the order of the cycles, the k-th
\* (from 0) with timestamp 5 * k
HistoryMatchesCycles(s) ==
    LET results == active_streams[s].results
    IN /\ Len(results) = Len(CompletedCycles(s))
       /\ \A k \in DOMAIN results :
              /\ results[k].timestamp = 5 * (k - 1)
              /\ results[k].transcription = CompletedCycles(s)[k].audio

\* the step leaves the session instance of s in place
StaysActive(s) == Registered(s) /\ s \in DOMAIN active_streams' /\ reply' # Started(s)

\* the entries there were are still there, in place, and at most one follows
AppendsOnly(s) ==
    LET before == active_streams[s].results
        after == active_streams'[s].results
    IN /\ Len(after) \in {Len(before), Len(before) + 1}
       /\ SubSeq(after, 1, Len(before)) = before

\* C22: while a session is active its result history only grows by appending
\* at the end (no entry is changed, removed or moved), each completed
\* inference cycle appends exactly one entry, and the k-th entry appended,
\* k counted from 0, carries the timestamp 5 * k.
C22_HistoryAppendOnly ==
    /\ [](\A s \in Sessions : Registered(s) => HistoryMatchesCycles(s))
    /\ [][\A s \in Sessions : StaysActive(s) => AppendsOnly(s)]_vars

\* a history of two entries, a cycle that failed among the session's cycles
C22_Witness ==
    /\ Registered("s1")
    /\ Len(active_streams["s1"].results) = 2
    /\ FailedCycles("s1") # {}

(***************************************************************************)
(* Streaming: sessions and the connection that started them.               *)
(***************************************************************************)
\* One client drives the service, so every registered session was started
\* over that client's connection (the current one or an earlier one).
\* C23: once a client's connection has ended, no session started over it is
\* left in the registry.
C23_NoSessionOutlivesConnection ==
    \A c \in SeqClients : conn[c].state = "closed" => DOMAIN active_streams = {}

\* the step is a start_session message for s
StartsSession(s) == \E c \in SeqClients : StartSession(c, s)

\* C24: start-session(id) for an id that is already active succeeds and
\* replaces the session: afterwards the buffer and the result history of id
\* are empty, nothing of the previous session can be read any more, and every
\* other session is as it was.
C24_RestartReplacesSession ==
    [][\A s \in Sessions :
         (Registered(s) /\ StartsSession(s)) =>
             /\ reply' = Started(s)
             /\ s \in DOMAIN active_streams'
             /\ active_streams'[s].buffer = <<>>
             /\ active_streams'[s].results = <<>>
             /\ LiveInsights(s)' = NoData
             /\ \A t \in Sessions \ {s} :
                    /\ t \in DOMAIN active_streams' <=> Registered(t)
                    /\ Registered(t) => active_streams'[t] = active_streams[t]]_vars

\* a session that held chunks or results has just been overwritten, the
\* other session holding a result and a buffered chunk
C24_Witness ==
    \E s, t \in Sessions :
        /\ s # t
        /\ reply = Started(s)
        /\ replaced = "data"
        /\ Registered(t)
        /\ active_streams[t].results # <<>>
        /\ active_streams[t].buffer # <<>>

(***************************************************************************)
(* Highlight generator: the fusion threshold.                              *)
(***************************************************************************)
\* 0.30 emotion + 0.25 sentiment + 0.25 topic + 0.20 visual, in
\* ten-thousandths, of the segment's per-signal scores
WeightedSum(segment) ==
    30 * EmotionScore(signals.emotion_peaks, segment)
    + 25 * SentimentChangeScore(signals.sentiment_changes, segment)
    + 25 * TopicTransitionScore(signals.topic_transitions, segment)
    + 20 * VisualActivityScore(signals.visual_spikes, segment)

\* the candidates emitted for a time segment
CandidatesOf(segment) == {k \in DOMAIN highlights : SegmentOf(highlights[k]) = segment}

\* C25: a time segment yields a highlight candidate iff its weighted sum
\* 0.30 emotion + 0.25 sentiment + 0.25 topic + 0.20 visual is strictly
\* above 0.5 (a sum of exactly 0.5, or below, yields none), it yields one
\* candidate only, and the candidate's score is that sum.
C25_CandidateIffAboveHalf ==
    hpc = "done" =>
        /\ \A i \in DOMAIN segments :
               /\ WeightedSum(segments[i]) > 5000 =>
                      Cardinality(CandidatesOf(segments[i])) = 1
               /\ WeightedSum(segments[i]) <= 5000 => CandidatesOf(segments[i]) = {}
        /\ \A k \in DOMAIN highlights :
               /\ SegmentOf(highlights[k]) \in Items(segments)
               /\ highlights[k].score = WeightedSum(SegmentOf(highlights[k]))

\* one segment exactly at 0.5 and not emitted, another emitted on its
\* emotion and topic scores
C25_Witness ==
    /\ hpc = "done"
    /\ \E i \in DOMAIN segments :
           WeightedSum(segments[i]) = 5000 /\ CandidatesOf(segments[i]) = {}
    /\ \E k \in DOMAIN highlights :
           /\ EmotionScore(signals.emotion_peaks, SegmentOf(highlights[k])) > 0
           /\ TopicTransitionScore(signals.topic_transitions, SegmentOf(highlights[k])) > 0

(***************************************************************************)
(* Highlight reel: the order of acceptance and the trim.                   *)
(***************************************************************************)
\* a comes no later than b in (score descending, start time descending)
Ahead(a, b) ==
    a.score > b.score \/ (a.score = b.score /\ a.start_time >= b.start_time)

\* how many times the candidate x occurs in a list of candidates / of clips
TimesOffered(x) == Cardinality({k \in DOMAIN reel.highlights : reel.highlights[k] = x})

TimesAccepted(x) == Cardinality({k \in DOMAIN reel.clips : reel.clips[k].highlight = x})

\* the budget left when the k-th clip of the plan was considered
BudgetBefore(k) == reel.max_duration - SumLengths(SubSeq(reel.clips, 1, k - 1))

\* C26: reel assembly takes the candidates in (score descending, start time
\* descending) order and accepts each one while the budget left is positive;
\* a candidate whose padded duration exceeds the budget left is trimmed to
\* end exactly at the budget, so at most one clip of the plan is trimmed, it
\* is the last one, and no candidate is accepted after it.
C26_GreedyOrderAndTrim ==
    (hpc = "reel" /\ reel.status # "raised") =>
        /\ \A k, l \in DOMAIN reel.clips :
               k < l => Ahead(reel.clips[k].highlight, reel.clips[l].highlight)
        /\ \A x \in Items(reel.highlights) :
               /\ TimesAccepted(x) <= TimesOffered(x)
               /\ TimesAccepted(x) < TimesOffered(x) =>
                      /\ \A k \in DOMAIN reel.clips : Ahead(reel.clips[k].highlight, x)
                      /\ BudgetBefore(Len(reel.clips) + 1) = 0
        /\ \A k \in DOMAIN reel.clips :
               /\ reel.clips[k].highlight \in Items(reel.highlights)
               /\ BudgetBefore(k) > 0
               /\ reel.clips[k].start = PaddedStart(reel.clips[k])
               /\ IF PaddedEnd(reel.clips[k]) - PaddedStart(reel.clips[k]) > BudgetBefore(k)
                    THEN /\ ClipLength(reel.clips[k]) = BudgetBefore(k)
                         /\ k = Len(reel.clips)
                    ELSE reel.clips[k].end = PaddedEnd(reel.clips[k])
        /\ Cardinality({k \in DOMAIN reel.clips : Trimmed(reel.clips[k])}) <= 1

\* three candidates offered; two of equal score accepted, the later one
\* first, the second trimmed; the third left out
C26_Witness ==
    /\ reel.status = "written"
    /\ Len(reel.highlights) = 3
    /\ Len(reel.clips) = 2
    /\ reel.clips[1].highlight.score = reel.clips[2].highlight.score
    /\ reel.clips[1].highlight.start_time > reel.clips[2].highlight.start_time
    /\ Trimmed(reel.clips[2])

(***************************************************************************)
(* Streaming: calls that interleave at the inference calls.                *)
(***************************************************************************)
\* the cycles of session s that handed chunk x to transcription: the logged
\* ones and the ones still waiting for inference
LoggedWith(s, x) == {k \in DOMAIN cycles[s] : x \in Items(cycles[s][k].audio)}

WaitingWith(s, x) ==
    {c \in Conns : /\ Suspended(c)
                   /\ suspended[c].session_id = s
                   /\ ~suspended[c].ended
                   /\ x \in Items(suspended[c].combined_audio)}

ResumesAfterEnd(c) ==
    /\ Suspended(c)
    /\ suspended[c].ended
    /\ suspended'[c] = NoCycle
    /\ reply' # Raised("inference")

HoldersOf(i) == {k \in DOMAIN segments : i \in Items(segments[k].text)}

\* C30: the text of every transcription segment is accumulated into exactly
\* one returned time segment, whose interval [start, end] contains the
\* transcription segment's start time; for any ordered input, gaps of more
\* than 30 seconds included.
C30_TextInItsWindow ==
    Segmented =>
        \A i \in DOMAIN transcript :
            ~transcript[i].blank =>
                /\ Cardinality(HoldersOf(i)) = 1
                /\ \A k \in HoldersOf(i) : Within(segments[k], transcript[i].start_time)

====
